---- MODULE Spec2Model ----
(***************************************************************************)
(* Model of the text/LaTeX segmentation and export pipeline of             *)
(* utils/converter.ts (parseContent, generateWordCompatibleFile) and of    *)
(* its caller App.handleExport.                                            *)
(*                                                                         *)
(* A JavaScript string is a sequence of one-character strings.  Positions  *)
(* are 0-based as in the source (match.index, regex.lastIndex): the        *)
(* character at position i of t is t[i + 1].                               *)
(***************************************************************************)
EXTENDS Integers, Sequences, FiniteSets, TLC

(***************************************************************************)
(* Bounds of the model.                                                    *)
(***************************************************************************)
\* longest input over the full delimiter alphabet
MaxLen == 5
\* longest input over the dollar alphabet (nested $$...$...$...$$ inputs)
MaxDollarLen == 7

\* longest segment sequence of an exported document
MaxSegs == 3
\* the same two bounds for the inputs of the termination property
MaxLiveLen == 3
MaxLiveDollarLen == 6

\* the number of words of an exported plain text
MaxWords == 4

\* the number of chat requests, of chunks of a response and of uploads followed
MaxSends == 2

MaxChunks == 2

MaxUploads == 2

BS == "\\"

Alphabet == {"$", BS, "[", "]", "(", ")", "a"}

DollarAlphabet == {"$", BS, "a"}

Strings(A, n) == UNION {[1..k -> A] : k \in 0..n}

\* scenarios 1, 2 and 6 of the specification, shortened to the characters
\* that matter for the scan
Scenarios ==
  { <<"A", ":", " ", "$", "x", "$", " ", "&", " ", "$", "$", "i", " ", "x", "$", "$", " ", "d">>,
    <<"P", " ", BS, "$", "5", ",", " ", "c", " ", BS, "$", "3">>,
    <<"T", ":", " ", "$", "5", " ", "n", "o">> }

\* inputs of the termination property
LiveInputs == Strings(Alphabet, MaxLiveLen) \cup Strings(DollarAlphabet, MaxLiveDollarLen) \cup Scenarios

Inputs == Strings(Alphabet, MaxLen) \cup Strings(DollarAlphabet, MaxDollarLen) \cup Scenarios

(***************************************************************************)
(* String helpers of the JavaScript runtime.                               *)
(***************************************************************************)
Min(a, b) == IF a < b THEN a ELSE b

Max(a, b) == IF a > b THEN a ELSE b

\* String.prototype.slice(start, end): a negative index counts from the end,
\* both are clamped to [0, length], and the result is empty when start >= end
Slice(s, start, end) ==
  LET n == Len(s)
      from == IF start < 0 THEN Max(n + start, 0) ELSE Min(start, n)
      to == IF end < 0 THEN Max(n + end, 0) ELSE Min(end, n)
  IN IF from >= to THEN <<>> ELSE SubSeq(s, from + 1, to)

\* d occurs in t at position i (String.prototype.startsWith with a position)
StartsAt(t, i, d) ==
  /\ i >= 0
  /\ i + Len(d) <= Len(t)
  /\ \A k \in 1..Len(d) : t[i + k] = d[k]

startsWith(s, d) == StartsAt(s, 0, d)

\* position of the first occurrence of d in t at or after from, -1 if none
\* (String.prototype.indexOf; the scan of a lazy quantifier for its closer)
RECURSIVE indexOf(_, _, _)
indexOf(t, d, from) ==
  IF from + Len(d) > Len(t) THEN -1
  ELSE IF StartsAt(t, from, d) THEN from
  ELSE indexOf(t, d, from + 1)

(***************************************************************************)
(* The four alternatives of the regular expression of parseContent.  Each  *)
(* gives the end position (exclusive) of its match at position i, or -1.   *)
(* A lazy quantifier followed by a literal closing delimiter stops at the  *)
(* first position where the delimiter occurs.                              *)
(***************************************************************************)
DD == <<"$", "$">>

\* \$\$[\s\S]*\$\$ with a greedy quantifier: the span runs to the last $$
AltDollarDollarGreedy(t, i) ==
  IF StartsAt(t, i, DD) /\ indexOf(t, DD, i + 2) # -1
  THEN 2 + CHOOSE j \in (i + 2)..(Len(t) - 2) :
             /\ StartsAt(t, j, DD)
             /\ \A k \in (j + 1)..(Len(t) - 2) : ~StartsAt(t, k, DD)
  ELSE -1

\* \$\$[\s\S]*?\$\$
AltDollarDollar(t, i) ==
  IF StartsAt(t, i, DD) /\ indexOf(t, DD, i + 2) # -1
  THEN indexOf(t, DD, i + 2) + 2
  ELSE -1

\* \\\[[\s\S]*?\\\]
AltBracket(t, i) ==
  IF StartsAt(t, i, <<BS, "[">>) /\ indexOf(t, <<BS, "]">>, i + 2) # -1
  THEN indexOf(t, <<BS, "]">>, i + 2) + 2
  ELSE -1

\* \\\([\s\S]*?\\\)
AltParen(t, i) ==
  IF StartsAt(t, i, <<BS, "(">>) /\ indexOf(t, <<BS, ")">>, i + 2) # -1
  THEN indexOf(t, <<BS, ")">>, i + 2) + 2
  ELSE -1

\* (?<!\\)\$[^$]*?\$
AltDollar(t, i) ==
  IF /\ StartsAt(t, i, <<"$">>)
     /\ ~StartsAt(t, i - 1, <<BS>>)
     /\ indexOf(t, <<"$">>, i + 1) # -1
  THEN indexOf(t, <<"$">>, i + 1) + 1
  ELSE -1

AltEnd(t, i, alt) ==
  CASE alt = 1 -> AltDollarDollar(t, i)
    [] alt = 2 -> AltBracket(t, i)
    [] alt = 3 -> AltParen(t, i)
    [] alt = 4 -> AltDollar(t, i)

\* the single-dollar alternative listed first
AltOrderDollarFirst == <<4, 2, 3, 1>>

\* the order in which the alternatives are tried at one position
AltOrder == <<1, 2, 3, 4>>

\* the alternative that matches at position i: the first of AltOrder, from
\* its k-th entry on, that succeeds; 0 when none does
RECURSIVE FirstAlt(_, _, _)
FirstAlt(t, i, k) ==
  IF k > Len(AltOrder) THEN 0
  ELSE IF AltEnd(t, i, AltOrder[k]) # -1 THEN AltOrder[k]
  ELSE FirstAlt(t, i, k + 1)

MatchAt(t, i) == FirstAlt(t, i, 1)

NoMatch == [index |-> -1, end |-> -1, alt |-> 0]

\* regex.exec(text) with the g flag: the leftmost match at or after lastIndex
RECURSIVE exec(_, _)
exec(t, from) ==
  IF from >= Len(t) THEN NoMatch
  ELSE IF MatchAt(t, from) # 0
       THEN [index |-> from, end |-> AltEnd(t, from, MatchAt(t, from)), alt |-> MatchAt(t, from)]
  ELSE exec(t, from + 1)

(***************************************************************************)
(* Segments.                                                               *)
(***************************************************************************)
TextSeg(c) == [type |-> "text", content |-> c]

MathSeg(c, d) == [type |-> "math", content |-> c, displayMode |-> d]

\* every branch slicing two characters off each end
StripDelimitersTwo(fullMatch) ==
  IF startsWith(fullMatch, DD) THEN MathSeg(Slice(fullMatch, 2, -2), TRUE)
  ELSE IF startsWith(fullMatch, <<BS, "[">>) THEN MathSeg(Slice(fullMatch, 2, -2), TRUE)
  ELSE IF startsWith(fullMatch, <<BS, "(">>) THEN MathSeg(Slice(fullMatch, 2, -2), FALSE)
  ELSE IF startsWith(fullMatch, <<"$">>) THEN MathSeg(Slice(fullMatch, 2, -2), FALSE)
  ELSE MathSeg(fullMatch, FALSE)

\* the delimiter stripping of parseContent: the chain of startsWith tests
\* on the matched text
StripDelimiters(fullMatch) ==
  IF startsWith(fullMatch, DD) THEN MathSeg(Slice(fullMatch, 2, -2), TRUE)
  ELSE IF startsWith(fullMatch, <<BS, "[">>) THEN MathSeg(Slice(fullMatch, 2, -2), TRUE)
  ELSE IF startsWith(fullMatch, <<BS, "(">>) THEN MathSeg(Slice(fullMatch, 2, -2), FALSE)
  ELSE IF startsWith(fullMatch, <<"$">>) THEN MathSeg(Slice(fullMatch, 1, -1), FALSE)
  ELSE MathSeg(fullMatch, FALSE)

\* the gap before the match pushed without the test that it is not empty
PushMatchAnyGap(t, last, m) ==
  <<TextSeg(Slice(t, last, m.index))>> \o <<StripDelimiters(Slice(t, m.index, m.end))>>

\* the segments one iteration of the scan loop pushes for match m
PushMatch(t, last, m) ==
  (IF m.index > last THEN <<TextSeg(Slice(t, last, m.index))>> ELSE <<>>)
    \o <<StripDelimiters(Slice(t, m.index, m.end))>>

\* the trailing text tested with an off-by-one length
PushRestShort(t, last) ==
  IF last < Len(t) - 1 THEN <<TextSeg(Slice(t, last, Len(t)))>> ELSE <<>>

\* the segment pushed after the loop
PushRest(t, last) ==
  IF last < Len(t) THEN <<TextSeg(Slice(t, last, Len(t)))>> ELSE <<>>

\* the spans of the input the pushed segments come from (alt 0: plain text)
SpanMatch(last, m) ==
  (IF m.index > last THEN <<[alt |-> 0, from |-> last, to |-> m.index]>> ELSE <<>>)
    \o <<[alt |-> m.alt, from |-> m.index, to |-> m.end]>>

SpanRest(t, last) ==
  IF last < Len(t) THEN <<[alt |-> 0, from |-> last, to |-> Len(t)]>> ELSE <<>>

\* the scan position left at the start of the match
AdvanceStuck(m) == m.index

\* regex.lastIndex after a successful exec: the end of the match

AdvanceTo(m) == m.end

\* parseContent as a function of its input: the loop run to its end
RECURSIVE scanLoop(_, _, _)
scanLoop(t, last, segs) ==
  LET m == exec(t, last)
  IN IF m = NoMatch THEN segs \o PushRest(t, last)
     ELSE scanLoop(t, AdvanceTo(m), segs \o PushMatch(t, last, m))

parseContent(t) == scanLoop(t, 0, <<>>)

(***************************************************************************)
(* generateWordCompatibleFile.  Markup is a sequence of tokens: the        *)
(* characters of the text, and one token for each tag or fixed block the   *)
(* function writes.                                                        *)
(***************************************************************************)
Styles == {"standard", "minimal", "worksheet", "notes", "two-column",
           "landscape", "large-print", "draft", "flashcards"}

NL == "\n"

\* the block of three dotted answer lines
writingLines == "<div><p dotted/><p dotted/><p dotted/></div>"

SpanSection == "<span style=\"color: #0284c7; font-weight: bold;\">"

SpanSubItem == "<span style=\"color: #0369a1; font-weight: bold;\">"

SpanTextRun == "<span class=\"text-run\">"

\* the colour written in the style attribute of a tag, "none" without one
TagColour(tok) ==
  CASE tok = SpanSection -> "#0284c7"
    [] tok = SpanSubItem -> "#0369a1"
    [] OTHER -> "none"

SpanClose == "</span>"

Br == "<br/>"

EquationOpen == "<p class=\"equation\" style=\"text-align: center; margin: 12pt 0;\">"

PClose == "</p>"

WorksheetSpacer == "<p style=\"margin-bottom: 30pt;\">&nbsp;</p>"

CardOpen == "<div class=\"flashcard\">"

DivClose == "</div>"

LatexError == "[LaTeX Error]"

EquationError == "[Equation Error]"

\* the character classes of the two highlighting patterns
\* \s
IsSpace(c) == c \in {" ", NL, "\t"}

\* [\dIVX] under the i flag
IsNumberChar(c) ==
  c \in {"0", "1", "2", "3", "4", "5", "6", "7", "8", "9", "I", "V", "X", "i", "v", "x"}

\* [a-z]
IsLower(c) ==
  c \in {"a", "b", "c", "d", "e", "f", "g", "h", "i", "j", "k", "l", "m",
         "n", "o", "p", "q", "r", "s", "t", "u", "v", "w", "x", "y", "z"}

\* the two accented letters of the section keywords, one token each
ACirc == "a-circumflex"

AGrave == "a-grave"

\* the canonical form of a character under the i flag (its upper case)
Canonical(c) ==
  CASE c = "c" -> "C"
    [] c = ACirc -> "A-CIRCUMFLEX"
    [] c = "u" -> "U"
    [] c = "b" -> "B"
    [] c = AGrave -> "A-GRAVE"
    [] c = "i" -> "I"
    [] OTHER -> c

\* Cau
Cau == <<"C", ACirc, "u">>

\* Bai
Bai == <<"B", AGrave, "i">>

\* (Cau|Bai) under the i flag at position i
KeywordAt(s, i) ==
  /\ i + 3 <= Len(s)
  /\ \E kw \in {Cau, Bai} : \A k \in 1..3 : Canonical(s[i + k]) = Canonical(kw[k])

\* the end of the longest run of characters of a class that starts at i
RECURSIVE SkipSpaces(_, _)
SkipSpaces(s, i) == IF i < Len(s) /\ IsSpace(s[i + 1]) THEN SkipSpaces(s, i + 1) ELSE i

RECURSIVE SkipNumber(_, _)
SkipNumber(s, i) == IF i < Len(s) /\ IsNumberChar(s[i + 1]) THEN SkipNumber(s, i + 1) ELSE i

\* (Cau|Bai)\s+([\dIVX]+[.:]?) with the keyword at position k: the end of
\* the match, -1 when there is none
SectionEnd(s, k) ==
  IF /\ KeywordAt(s, k)
     /\ SkipSpaces(s, k + 3) > k + 3
     /\ SkipNumber(s, SkipSpaces(s, k + 3)) > SkipSpaces(s, k + 3)
  THEN LET n == SkipNumber(s, SkipSpaces(s, k + 3))
       IN IF n < Len(s) /\ s[n + 1] \in {".", ":"} THEN n + 1 ELSE n
  ELSE -1

\* (^|\n) at position i: the positions at which the rest of the pattern may
\* start, in the order the alternation tries them
LineStarts(s, i) ==
  (IF i = 0 THEN <<i>> ELSE <<>>) \o (IF i < Len(s) /\ s[i + 1] = NL THEN <<i + 1>> ELSE <<>>)

\* the replacement '$1<span ...>$2 $3</span>' for a match of the first
\* pattern that starts at i with its keyword at k and ends at e
SectionReplacement(s, i, k, e) ==
  Slice(s, i, k) \o <<SpanSection>> \o Slice(s, k, k + 3) \o <<" ">>
    \o Slice(s, SkipSpaces(s, k + 3), e) \o <<SpanClose>>

\* safeText.replace(/(^|\n)(Cau|Bai)\s+([\dIVX]+[.:]?)/gi, ...) from position i on
RECURSIVE HighlightSections(_, _)
HighlightSections(s, i) ==
  IF i >= Len(s) THEN <<>>
  ELSE LET starts == LineStarts(s, i)
           k == IF Len(starts) >= 1 /\ SectionEnd(s, starts[1]) # -1 THEN starts[1]
                ELSE IF Len(starts) >= 2 /\ SectionEnd(s, starts[2]) # -1 THEN starts[2]
                ELSE -1
       IN IF k = -1 THEN <<s[i + 1]>> \o HighlightSections(s, i + 1)
          ELSE SectionReplacement(s, i, k, SectionEnd(s, k))
                 \o HighlightSections(s, SectionEnd(s, k))

\* ([a-z]\))(\s) with the letter at position k
SubItemAt(s, k) ==
  /\ k + 3 <= Len(s)
  /\ IsLower(s[k + 1])
  /\ s[k + 2] = ")"
  /\ IsSpace(s[k + 3])

\* safeText.replace(/(^|\n)([a-z]\))(\s)/g, '$1<span ...>$2</span>$3') from i on
RECURSIVE HighlightSubItems(_, _)
HighlightSubItems(s, i) ==
  IF i >= Len(s) THEN <<>>
  ELSE LET starts == LineStarts(s, i)
           k == IF Len(starts) >= 1 /\ SubItemAt(s, starts[1]) THEN starts[1]
                ELSE IF Len(starts) >= 2 /\ SubItemAt(s, starts[2]) THEN starts[2]
                ELSE -1
       IN IF k = -1 THEN <<s[i + 1]>> \o HighlightSubItems(s, i + 1)
          ELSE Slice(s, i, k) \o <<SpanSubItem>> \o Slice(s, k, k + 2) \o <<SpanClose>>
                 \o <<s[k + 3]>> \o HighlightSubItems(s, k + 3)

\* s.replace(/c/g, r) for a single character c and a replacement r
RECURSIVE ReplaceAll(_, _, _)
ReplaceAll(s, c, r) ==
  IF s = <<>> THEN <<>>
  ELSE (IF Head(s) = c THEN r ELSE <<Head(s)>>) \o ReplaceAll(Tail(s), c, r)

\* the three escaping replacements, in the order of the source
EscapeHtml(s) ==
  ReplaceAll(ReplaceAll(ReplaceAll(s, "&", <<"&", "a", "m", "p", ";">>),
                        "<", <<"&", "l", "t", ";">>),
             ">", <<"&", "g", "t", ";">>)

\* the plain-text processing applied whatever the flag
TextHtmlAlwaysPlain(content, rich) ==
  <<SpanTextRun>>
    \o ReplaceAll(HighlightSubItems(HighlightSections(EscapeHtml(content), 0), 0),
                  NL, <<Br>>)
    \o <<SpanClose>>

\* the markup of the content of a text segment
TextHtml(content, rich) ==
  IF rich THEN content
  ELSE <<SpanTextRun>>
         \o ReplaceAll(HighlightSubItems(HighlightSections(EscapeHtml(content), 0), 0),
                       NL, <<Br>>)
         \o <<SpanClose>>

\* String.prototype.includes
includes(s, d) == indexOf(s, d, 0) # -1

\* the length above which a text segment of a worksheet gets answer lines
LongTextLength == 50

\* the length test written with >= instead of >
TextSegmentHtmlAtLeast(seg, rich, style) ==
  TextHtml(seg.content, rich)
    \o (IF /\ style = "worksheet"
           /\ ~rich
           /\ \/ includes(seg.content, Cau)
              \/ includes(seg.content, Bai)
              \/ Len(seg.content) >= LongTextLength
        THEN <<writingLines>> ELSE <<>>)

\* the markup of a text segment: its text and, in a worksheet, answer lines
TextSegmentHtml(seg, rich, style) ==
  TextHtml(seg.content, rich)
    \o (IF /\ style = "worksheet"
           /\ ~rich
           /\ \/ includes(seg.content, Cau)
              \/ includes(seg.content, Bai)
              \/ Len(seg.content) > LongTextLength
        THEN <<writingLines>> ELSE <<>>)

(***************************************************************************)
(* The preview of a text segment: HighlightedText splits the content with  *)
(* one pattern of two capturing alternatives and styles a part by two      *)
(* tests.  The result is kept as the kinds of the styled parts, in order.  *)
(***************************************************************************)
\* [a-z] under the i flag
IsLetter(c) ==
  \/ IsLower(c)
  \/ c \in {"A", "B", "C", "D", "E", "F", "G", "H", "I", "J", "K", "L", "M",
             "N", "O", "P", "Q", "R", "S", "T", "U", "V", "W", "X", "Y", "Z"}

\* [a-z]\)\s under the i flag with the letter at position k
SubItemAtAnyCase(s, k) ==
  /\ k + 3 <= Len(s)
  /\ IsLetter(s[k + 1])
  /\ s[k + 2] = ")"
  /\ IsSpace(s[k + 3])

NoPart == [kind |-> "none", end |-> -1]

\* the match of the splitting pattern at position i: the first alternative
\* before the second, ^ before \n
PreviewMatch(s, i) ==
  LET starts == LineStarts(s, i)
  IN IF Len(starts) >= 1 /\ SectionEnd(s, starts[1]) # -1
     THEN [kind |-> "section", end |-> SectionEnd(s, starts[1])]
     ELSE IF Len(starts) >= 2 /\ SectionEnd(s, starts[2]) # -1
     THEN [kind |-> "section", end |-> SectionEnd(s, starts[2])]
     ELSE IF Len(starts) >= 1 /\ SubItemAtAnyCase(s, starts[1])
     THEN [kind |-> "subitem", end |-> starts[1] + 3]
     ELSE IF Len(starts) >= 2 /\ SubItemAtAnyCase(s, starts[2])
     THEN [kind |-> "subitem", end |-> starts[2] + 3]
     ELSE NoPart

\* the position after the optional leading \n of a part
AfterLeadingNL(part) == IF part # <<>> /\ part[1] = NL THEN 1 ELSE 0

\* the style of a part: null for an empty part, then the two tests in order
PartKind(part) ==
  IF part = <<>> THEN <<>>
  ELSE IF SectionEnd(part, AfterLeadingNL(part)) # -1 THEN <<"section">>
  ELSE IF SubItemAtAnyCase(part, AfterLeadingNL(part)) THEN <<"subitem">>
  ELSE <<>>

\* content.split(regex) and the map over the parts, from position i on with
\* the part between matches starting at g
RECURSIVE PreviewParts(_, _, _)
PreviewParts(s, i, g) ==
  IF i >= Len(s) THEN PartKind(Slice(s, g, Len(s)))
  ELSE IF PreviewMatch(s, i) = NoPart THEN PreviewParts(s, i + 1, g)
  ELSE PartKind(Slice(s, g, i))
         \o PartKind(Slice(s, i, PreviewMatch(s, i).end))
         \o PreviewParts(s, PreviewMatch(s, i).end, PreviewMatch(s, i).end)

\* the kinds of the parts HighlightedText styles, in order
HighlightedText(content) == PreviewParts(content, 0, 0)

(***************************************************************************)
(* The typesetting collaborator.  katex.renderToString either returns      *)
(* markup holding a <math> element ("ok"), returns markup without one      *)
(* ("nomatch"), or throws ("throw").                                       *)
(***************************************************************************)
KatexOutcomes == {"ok", "nomatch", "throw"}

MathOpen(display) == IF display THEN "<math display=\"block\">" ELSE "<math>"

MathClose == "</math>"

AnnotationOpen == "<annotation encoding=\"application/x-tex\">"

AnnotationClose == "</annotation>"

IsMathOpen(tok) == tok \in {MathOpen(TRUE), MathOpen(FALSE)}

\* what katex.renderToString returns when it does not throw
renderToString(content, display, outcome) ==
  IF outcome = "ok"
  THEN <<"<span class=\"katex\">", MathOpen(display), "<semantics>">> \o content
         \o <<AnnotationOpen>> \o content
         \o <<AnnotationClose, "</semantics>", MathClose, "</span>">>
  ELSE <<"<span class=\"katex-error\">">> \o content \o <<SpanClose>>

\* position of the first <math ...> token of s at or after i, -1 if none
RECURSIVE FindMathOpen(_, _)
FindMathOpen(s, i) ==
  IF i >= Len(s) THEN -1 ELSE IF IsMathOpen(s[i + 1]) THEN i ELSE FindMathOpen(s, i + 1)

\* mathML.match(/<math[\s\S]*?<\/math>/): the matched markup, <<>> for null
matchMath(mathML) ==
  LET from == FindMathOpen(mathML, 0)
      to == IF from = -1 THEN -1 ELSE indexOf(mathML, <<MathClose>>, from + 1)
  IN IF to = -1 THEN <<>> ELSE Slice(mathML, from, to + 1)

\* cleanMath.replace(/<annotation encoding="application\/x-tex">[\s\S]*?<\/annotation>/, '')
stripAnnotation(m) ==
  LET from == indexOf(m, <<AnnotationOpen>>, 0)
      to == IF from = -1 THEN -1 ELSE indexOf(m, <<AnnotationClose>>, from + 1)
  IN IF to = -1 THEN m ELSE Slice(m, 0, from) \o Slice(m, to + 1, Len(m))

\* whether an exception of the math branch leaves the forEach callback: the
\* whole branch is inside try ... catch
MathThrowsUncaught(outcome) == outcome = "throw"

MathThrows(outcome) == FALSE

\* the block paragraph written without the test of displayMode
MathSegmentHtmlAlwaysBlock(seg, style, outcome) ==
  IF outcome = "throw" THEN <<LatexError>>
  ELSE LET mathMatch == matchMath(renderToString(seg.content, seg.displayMode, outcome))
       IN IF mathMatch # <<>>
          THEN <<EquationOpen>> \o stripAnnotation(mathMatch) \o <<PClose>>
                 \o (IF style = "worksheet" THEN <<WorksheetSpacer>> ELSE <<>>)
          ELSE <<EquationError>>

\* the markup of a math segment
MathSegmentHtml(seg, style, outcome) ==
  IF outcome = "throw" THEN <<LatexError>>
  ELSE LET mathMatch == matchMath(renderToString(seg.content, seg.displayMode, outcome))
       IN IF mathMatch # <<>>
          THEN IF seg.displayMode
               THEN <<EquationOpen>> \o stripAnnotation(mathMatch) \o <<PClose>>
                      \o (IF style = "worksheet" THEN <<WorksheetSpacer>> ELSE <<>>)
               ELSE stripAnnotation(mathMatch)
          ELSE <<EquationError>>

\* segmentHtml of one iteration of the forEach
SegmentHtml(seg, rich, style, outcome) ==
  IF seg.type = "text" THEN TextSegmentHtml(seg, rich, style)
  ELSE MathSegmentHtml(seg, style, outcome)

\* segmentHtml.trim().length > 0
NonBlank(html) == \E k \in 1..Len(html) : ~IsSpace(html[k])

\* blank text markup left out of the body
AccumulateSkipsBlank(seg, style, html) ==
  IF seg.type = "text" /\ ~NonBlank(html) THEN <<>>
  ELSE IF style = "flashcards" /\ seg.type = "text"
  THEN <<CardOpen>> \o html \o <<DivClose>>
  ELSE IF style = "flashcards" /\ seg.type = "math" /\ seg.displayMode
  THEN <<CardOpen>> \o html \o <<DivClose>>
  ELSE html

\* what one iteration appends to bodyContent
Accumulate(seg, style, html) ==
  IF style = "flashcards" /\ seg.type = "text" /\ NonBlank(html)
  THEN <<CardOpen>> \o html \o <<DivClose>>
  ELSE IF style = "flashcards" /\ seg.type = "math" /\ seg.displayMode
  THEN <<CardOpen>> \o html \o <<DivClose>>
  ELSE html

\* the switch without the break of case 'landscape': the case falls through
\* into 'large-print'
StyleCssFallThrough(style) ==
  [pageMargin |-> CASE style = "notes" -> "1in 1in 1in 2.5in"
                    [] style \in {"minimal", "two-column"} -> "0.5in"
                    [] style = "draft" -> "1.5in"
                    [] OTHER -> "1in",
   orientation |-> IF style = "landscape" THEN "landscape" ELSE "portrait",
   fontSize |-> IF style \in {"landscape", "large-print"} THEN "16pt" ELSE "12pt",
   fontFamily |-> IF style \in {"landscape", "large-print"} THEN "Arial, sans-serif"
                  ELSE "'Times New Roman', serif",
   lineHeight |-> CASE style = "minimal" -> "1.2"
                    [] style \in {"landscape", "large-print"} -> "1.6"
                    [] style = "draft" -> "2.0"
                    [] OTHER -> "1.5",
   extraCss |-> CASE style = "two-column" -> ".Section1 { column-count: 2; column-gap: 36pt; }"
                  [] style = "flashcards" -> ".flashcard { border: 2px solid #000; }"
                  [] OTHER -> "",
   headingColor1 |-> IF style \in {"minimal", "draft"} THEN "#000000" ELSE "#2E74B5",
   headingColor2 |-> IF style \in {"minimal", "draft"} THEN "#000000" ELSE "#1F4D78",
   tableHeaderBg |-> IF style \in {"minimal", "draft"} THEN "#ffffff" ELSE "#f2f2f2"]

\* the style-dependent CSS values and the colours of the document
StyleCss(style) ==
  [pageMargin |-> CASE style = "notes" -> "1in 1in 1in 2.5in"
                    [] style \in {"minimal", "two-column"} -> "0.5in"
                    [] style = "draft" -> "1.5in"
                    [] OTHER -> "1in",
   orientation |-> IF style = "landscape" THEN "landscape" ELSE "portrait",
   fontSize |-> IF style = "large-print" THEN "16pt" ELSE "12pt",
   fontFamily |-> IF style = "large-print" THEN "Arial, sans-serif"
                  ELSE "'Times New Roman', serif",
   lineHeight |-> CASE style = "minimal" -> "1.2"
                    [] style = "large-print" -> "1.6"
                    [] style = "draft" -> "2.0"
                    [] OTHER -> "1.5",
   extraCss |-> CASE style = "two-column" -> ".Section1 { column-count: 2; column-gap: 36pt; }"
                  [] style = "flashcards" -> ".flashcard { border: 2px solid #000; }"
                  [] OTHER -> "",
   headingColor1 |-> IF style \in {"minimal", "draft"} THEN "#000000" ELSE "#2E74B5",
   headingColor2 |-> IF style \in {"minimal", "draft"} THEN "#000000" ELSE "#1F4D78",
   tableHeaderBg |-> IF style \in {"minimal", "draft"} THEN "#ffffff" ELSE "#f2f2f2"]

\* the margin, in twips, passed to asBlob for each side
BlobMargin == 720

\* the arguments of the call of asBlob
BlobCall(style, body) ==
  [html |-> [css |-> StyleCss(style), body |-> body],
   options |-> [orientation |-> StyleCss(style).orientation,
                margins |-> [top |-> BlobMargin, bottom |-> BlobMargin,
                             left |-> BlobMargin, right |-> BlobMargin]]]

\* the suffix handleExport gives the downloaded file
Suffix(style) ==
  CASE style = "minimal" -> "_print"
    [] style = "worksheet" -> "_worksheet"
    [] style = "notes" -> "_notes"
    [] style = "two-column" -> "_exam"
    [] style = "landscape" -> "_wide"
    [] style = "large-print" -> "_access"
    [] style = "draft" -> "_draft"
    [] style = "flashcards" -> "_cards"
    [] OTHER -> ""

(***************************************************************************)
(* parseContent as a state machine: one step per iteration of the loop.    *)
(***************************************************************************)
VARIABLES text, lastIndex, segments, spans, pc,
          isRichText, style, index, htmls, outcomes, bodyContent,
          blobCall, asBlobCalls, download, exportError, isExportMenuOpen, epc

\* the variables of parseContent
pvars == <<text, lastIndex, spans, pc>>

\* the variables of an export
evars == <<isRichText, style, index, htmls, outcomes, bodyContent,
           blobCall, asBlobCalls, download, exportError, isExportMenuOpen, epc>>

\* the state of GeminiChat: its useState values, the chat session ref, the
\* value of isLoading the handlers of the last render closed over, and the
\* requests sent to the chat service
VARIABLES isOpen, input, messages, isLoading, chatSessionRef, renderedIsLoading, requests

cvars == <<isOpen, input, messages, isLoading, chatSessionRef, renderedIsLoading, requests>>

\* the state of an import: the useState values of App that handleFileUpload
\* writes, the disabled attribute of the file input as last rendered, and the
\* calls of handleFileUpload
VARIABLES rawText, isImporting, importStatus, useSmartOCR, inputDisabled, uploads

ivars == <<rawText, isImporting, importStatus, useSmartOCR, inputDisabled, uploads>>

\* the text the editor starts with
ExampleText == <<"$", "x", "$">>

vars == <<pvars, segments, evars, cvars, ivars>>

NoCall == [html |-> <<>>, options |-> <<>>]

NoDownload == <<>>

Init ==
  /\ text = <<>>
  /\ lastIndex = 0
  /\ segments = <<>>
  /\ spans = <<>>
  /\ pc = "idle"
  /\ isRichText = FALSE
  /\ style = "standard"
  /\ index = 0
  /\ htmls = <<>>
  /\ outcomes = <<>>
  /\ bodyContent = <<>>
  /\ blobCall = NoCall
  /\ asBlobCalls = 0
  /\ download = NoDownload
  /\ exportError = "none"
  /\ isExportMenuOpen = FALSE
  /\ epc = "idle"
  /\ isOpen = FALSE
  /\ input = <<>>
  /\ messages = <<[role |-> "model", text |-> <<"Hello">>, isError |-> FALSE]>>
  /\ isLoading = FALSE
  /\ chatSessionRef = "null"
  /\ renderedIsLoading = FALSE
  /\ requests = <<>>
  /\ rawText = ExampleText
  /\ isImporting = FALSE
  /\ importStatus = ""
  /\ useSmartOCR = TRUE
  /\ inputDisabled = FALSE
  /\ uploads = <<>>

\* parseContent is called with an input: the state before the loop
Call ==
  /\ pc = "idle"
  /\ text' \in Inputs
  /\ lastIndex' = 0
  /\ segments' = <<>>
  /\ spans' = <<>>
  /\ pc' = "scan"
  /\ UNCHANGED evars
  /\ UNCHANGED <<cvars, ivars>>

\* an iteration of the loop: regex.exec found a match
ScanMatch ==
  /\ pc = "scan"
  /\ exec(text, lastIndex) # NoMatch
  /\ LET m == exec(text, lastIndex)
     IN /\ segments' = segments \o PushMatch(text, lastIndex, m)
        /\ spans' = spans \o SpanMatch(lastIndex, m)
        /\ lastIndex' = AdvanceTo(m)
  /\ UNCHANGED <<text, pc, evars>>
  /\ UNCHANGED <<cvars, ivars>>

\* regex.exec returned null: the loop ends and the remaining text is pushed
ScanEnd ==
  /\ pc = "scan"
  /\ exec(text, lastIndex) = NoMatch
  /\ segments' = segments \o PushRest(text, lastIndex)
  /\ spans' = spans \o SpanRest(text, lastIndex)
  /\ pc' = "done"
  /\ UNCHANGED <<text, lastIndex, evars>>
  /\ UNCHANGED <<cvars, ivars>>

Next == Call \/ ScanMatch \/ ScanEnd

Spec == Init /\ [][Next]_vars

\* the same machine over the inputs of the termination property; the loop is
\* synchronous code, so a step that is enabled is eventually taken
CallLive ==
  /\ pc = "idle"
  /\ text' \in LiveInputs
  /\ lastIndex' = 0
  /\ segments' = <<>>
  /\ spans' = <<>>
  /\ pc' = "scan"
  /\ UNCHANGED evars
  /\ UNCHANGED <<cvars, ivars>>

NextLive == CallLive \/ ScanMatch \/ ScanEnd

FairSpec == Init /\ [][NextLive]_vars /\ WF_vars(NextLive)

(***************************************************************************)
(* An export: App.handleExport calls generateWordCompatibleFile, which     *)
(* serializes the segments one by one and hands the document to asBlob;    *)
(* handleExport awaits the blob and starts the download.  One step per     *)
(* iteration of the forEach, one for the call of asBlob, one for each      *)
(* outcome of the promise.  The model follows one export from the click to *)
(* its end.                                                                *)
(***************************************************************************)
\* the segments of the exported documents: the two text chunks of scenario
\* 3 of the specification, a blank and an empty text, inline and display math
SampleSegments ==
  { TextSeg(<<"C", ACirc, "u", " ", "1", ":", " ", "x", "<", "y", " ">>),
    TextSeg(<<NL, "a", ")", " ", "p", "&", "q", NL, "b", ")", " ", "r">>),
    TextSeg(<<" ">>),
    TextSeg(<<>>),
    MathSeg(<<"x", "+", "1">>, FALSE),
    MathSeg(<<"x", "^", "2">>, TRUE) }

ExportSegments == Strings(SampleSegments, MaxSegs)

fileName == "document"

\* the export menu button
ToggleExportMenu ==
  /\ epc \in {"idle", "done", "failed"}
  /\ isExportMenuOpen' = ~isExportMenuOpen
  /\ UNCHANGED <<pvars, segments, isRichText, style, index, htmls, outcomes,
                 bodyContent, blobCall, asBlobCalls, download, exportError, epc>>
  /\ UNCHANGED <<cvars, ivars>>

\* an export button of the open menu is clicked: handleExport(style) calls
\* generateWordCompatibleFile(segments, isRichText, style)
HandleExport ==
  /\ epc = "idle"
  /\ isExportMenuOpen
  /\ segments' \in ExportSegments
  /\ isRichText' \in BOOLEAN
  /\ style' \in Styles
  /\ index' = 0
  /\ htmls' = <<>>
  /\ outcomes' = <<>>
  /\ bodyContent' = <<>>
  /\ blobCall' = NoCall
  /\ asBlobCalls' = 0
  /\ download' = NoDownload
  /\ exportError' = "none"
  /\ epc' = "forEach"
  /\ UNCHANGED <<pvars, isExportMenuOpen>>
  /\ UNCHANGED <<cvars, ivars>>

\* one iteration of segments.forEach
SerializeSegment ==
  /\ epc = "forEach"
  /\ index < Len(segments)
  /\ LET seg == segments[index + 1]
     IN \E outcome \in (IF seg.type = "math" THEN KatexOutcomes ELSE {"none"}) :
          IF MathThrows(outcome)
          THEN /\ exportError' = "serializer"
               /\ epc' = "failed"
               /\ UNCHANGED <<index, htmls, outcomes, bodyContent>>
          ELSE /\ htmls' = Append(htmls, SegmentHtml(seg, isRichText, style, outcome))
               /\ outcomes' = Append(outcomes, outcome)
               /\ bodyContent' = bodyContent
                    \o Accumulate(seg, style, SegmentHtml(seg, isRichText, style, outcome))
               /\ index' = index + 1
               /\ UNCHANGED <<exportError, epc>>
  /\ UNCHANGED <<pvars, segments, isRichText, style, blobCall, asBlobCalls,
                 download, isExportMenuOpen>>
  /\ UNCHANGED <<cvars, ivars>>

\* the forEach has returned
PackageReadyEarly(i, segs) == TRUE

PackageReady(i, segs) == i >= Len(segs)

\* the document is assembled and handed to asBlob
Package ==
  /\ epc = "forEach"
  /\ PackageReady(index, segments)
  /\ blobCall' = BlobCall(style, bodyContent)
  /\ asBlobCalls' = asBlobCalls + 1
  /\ epc' = "await"
  /\ UNCHANGED <<pvars, segments, isRichText, style, index, htmls, outcomes,
                 bodyContent, download, exportError, isExportMenuOpen>>
  /\ UNCHANGED <<cvars, ivars>>

\* the promise of asBlob is fulfilled: the download starts, the menu closes
BlobResolved ==
  /\ epc = "await"
  /\ download' = <<fileName, Suffix(style), ".docx">>
  /\ isExportMenuOpen' = FALSE
  /\ epc' = "done"
  /\ UNCHANGED <<pvars, segments, isRichText, style, index, htmls, outcomes,
                 bodyContent, blobCall, asBlobCalls, exportError>>
  /\ UNCHANGED <<cvars, ivars>>

\* the promise of asBlob is rejected: handleExport is left by the exception
BlobRejected ==
  /\ epc = "await"
  /\ exportError' = "packaging"
  /\ epc' = "failed"
  /\ UNCHANGED <<pvars, segments, isRichText, style, index, htmls, outcomes,
                 bodyContent, blobCall, asBlobCalls, download, isExportMenuOpen>>
  /\ UNCHANGED <<cvars, ivars>>

ExportNext ==
  \/ ToggleExportMenu
  \/ HandleExport
  \/ SerializeSegment
  \/ Package
  \/ BlobResolved
  \/ BlobRejected

ExportSpec == Init /\ [][ExportNext]_vars

(***************************************************************************)
(* The export of a document that is one plain or rich text: the texts are  *)
(* built from a few words (a section keyword, a line break, a space, a     *)
(* digit, a sub-item marker, the characters that need escaping), and three *)
(* texts without a keyword have a length around LongTextLength.            *)
(***************************************************************************)
TextWords == {Cau, <<NL>>, <<" ">>, <<"1">>, <<"x", ")">>, <<"&">>, <<"<", "b", ">">>}

RECURSIVE Flatten(_)
Flatten(ws) == IF ws = <<>> THEN <<>> ELSE Head(ws) \o Flatten(Tail(ws))

RECURSIVE Repeat(_, _)
Repeat(c, n) == IF n <= 0 THEN <<>> ELSE <<c>> \o Repeat(c, n - 1)

LongTexts ==
  {Repeat("y", n) : n \in {LongTextLength - 1, LongTextLength, LongTextLength + 1}}

TextInputs == {Flatten(ws) : ws \in Strings(TextWords, MaxWords)} \cup LongTexts

\* handleExport(style) for a document of one text segment
HandleExportText ==
  /\ epc = "idle"
  /\ isExportMenuOpen
  /\ \E c \in TextInputs : segments' = <<TextSeg(c)>>
  /\ isRichText' \in BOOLEAN
  /\ style' \in Styles
  /\ index' = 0
  /\ htmls' = <<>>
  /\ outcomes' = <<>>
  /\ bodyContent' = <<>>
  /\ blobCall' = NoCall
  /\ asBlobCalls' = 0
  /\ download' = NoDownload
  /\ exportError' = "none"
  /\ epc' = "forEach"
  /\ UNCHANGED <<pvars, isExportMenuOpen>>
  /\ UNCHANGED <<cvars, ivars>>

TextNext ==
  \/ ToggleExportMenu
  \/ HandleExportText
  \/ SerializeSegment
  \/ Package
  \/ BlobResolved
  \/ BlobRejected

TextSpec == Init /\ [][TextNext]_vars

(***************************************************************************)
(* GeminiChat.  A message is a record of its role, its text and its error  *)
(* flag; the text of a response is the sequence of the chunks received.    *)
(* A request is one call of sendMessageToGemini: "sending" while the call  *)
(* of chat.sendMessageStream is awaited, "streaming" while handleSend      *)
(* iterates over the stream, then "done" or "failed".                      *)
(***************************************************************************)
ChatInputs == {<<>>, <<" ">>, <<"q">>}

ErrorMessage == [role |-> "model", text |-> <<"Sorry">>, isError |-> TRUE]

\* the test at the head of handleSend, negated: the handler goes on
SendAllowedWhileLoading(inp, session, loading) ==
  NonBlank(inp) /\ session # "null"

SendAllowed(inp, session, loading) ==
  NonBlank(inp) /\ session # "null" /\ ~loading

\* the open button: setIsOpen(true), rendered at once
OpenChat ==
  /\ ~isOpen
  /\ isOpen' = TRUE
  /\ UNCHANGED <<input, messages, isLoading, chatSessionRef, renderedIsLoading, requests>>
  /\ UNCHANGED <<pvars, segments, evars, ivars>>

\* the effect on isOpen, run after the render that opened the window
SessionEffect ==
  /\ isOpen
  /\ chatSessionRef = "null"
  /\ chatSessionRef' = "chat"
  /\ UNCHANGED <<isOpen, input, messages, isLoading, renderedIsLoading, requests>>
  /\ UNCHANGED <<pvars, segments, evars, ivars>>

\* the close button: setIsOpen(false)
CloseChat ==
  /\ isOpen
  /\ isOpen' = FALSE
  /\ UNCHANGED <<input, messages, isLoading, chatSessionRef, renderedIsLoading, requests>>
  /\ UNCHANGED <<pvars, segments, evars, ivars>>

\* onChange of the input field of the open window
TypeInput ==
  /\ isOpen
  /\ \E v \in ChatInputs :
        /\ v # input
        /\ input' = v
  /\ UNCHANGED <<isOpen, messages, isLoading, chatSessionRef, renderedIsLoading, requests>>
  /\ UNCHANGED <<pvars, segments, evars, ivars>>

\* handleSend up to its first await, called by the Enter key or the send
\* button of the open window.  The handler reads the isLoading of the render
\* it was created in; its updates are rendered before the next event.
HandleSend ==
  /\ isOpen
  /\ Len(requests) < MaxSends
  /\ IF SendAllowed(input, chatSessionRef, renderedIsLoading)
       THEN /\ messages' = Append(messages, [role |-> "user", text |-> input, isError |-> FALSE])
            /\ input' = <<>>
            /\ isLoading' = TRUE
            /\ renderedIsLoading' = TRUE
            /\ requests' = Append(requests, [phase |-> "sending", botMsg |-> 0, chunks |-> 0])
            /\ UNCHANGED <<isOpen, chatSessionRef>>
       ELSE UNCHANGED cvars
  /\ UNCHANGED <<pvars, segments, evars, ivars>>

\* sendMessageToGemini returns the stream: the empty response is appended
SendResolved ==
  /\ \E k \in 1..Len(requests) :
        /\ requests[k].phase = "sending"
        /\ messages' = Append(messages, [role |-> "model", text |-> <<>>, isError |-> FALSE])
        /\ requests' = [requests EXCEPT ![k].phase = "streaming", ![k].botMsg = Len(messages) + 1]
  /\ UNCHANGED <<isOpen, input, isLoading, chatSessionRef, renderedIsLoading>>
  /\ UNCHANGED <<pvars, segments, evars, ivars>>

\* sendMessageToGemini throws: catch, then finally
SendRejected ==
  /\ \E k \in 1..Len(requests) :
        /\ requests[k].phase = "sending"
        /\ requests' = [requests EXCEPT ![k].phase = "failed"]
  /\ messages' = Append(messages, ErrorMessage)
  /\ isLoading' = FALSE
  /\ UNCHANGED <<isOpen, input, chatSessionRef, renderedIsLoading>>
  /\ UNCHANGED <<pvars, segments, evars, ivars>>

\* one turn of the for await loop: the chunk is added to the response
StreamChunk ==
  /\ \E k \in 1..Len(requests) :
        /\ requests[k].phase = "streaming"
        /\ requests[k].chunks < MaxChunks
        /\ messages' = [messages EXCEPT ![requests[k].botMsg].text = Append(@, "chunk")]
        /\ requests' = [requests EXCEPT ![k].chunks = @ + 1]
  /\ UNCHANGED <<isOpen, input, isLoading, chatSessionRef, renderedIsLoading>>
  /\ UNCHANGED <<pvars, segments, evars, ivars>>

\* the stream is exhausted: finally
StreamEnd ==
  /\ \E k \in 1..Len(requests) :
        /\ requests[k].phase = "streaming"
        /\ requests' = [requests EXCEPT ![k].phase = "done"]
  /\ isLoading' = FALSE
  /\ UNCHANGED <<isOpen, input, messages, chatSessionRef, renderedIsLoading>>
  /\ UNCHANGED <<pvars, segments, evars, ivars>>

\* the stream throws part-way: catch, then finally
StreamFails ==
  /\ \E k \in 1..Len(requests) :
        /\ requests[k].phase = "streaming"
        /\ requests' = [requests EXCEPT ![k].phase = "failed"]
  /\ messages' = Append(messages, ErrorMessage)
  /\ isLoading' = FALSE
  /\ UNCHANGED <<isOpen, input, chatSessionRef, renderedIsLoading>>
  /\ UNCHANGED <<pvars, segments, evars, ivars>>

\* the render of the updates made after an await
RenderChat ==
  /\ renderedIsLoading # isLoading
  /\ renderedIsLoading' = isLoading
  /\ UNCHANGED <<isOpen, input, messages, isLoading, chatSessionRef, requests>>
  /\ UNCHANGED <<pvars, segments, evars, ivars>>

ChatNext ==
  \/ OpenChat
  \/ SessionEffect
  \/ CloseChat
  \/ TypeInput
  \/ HandleSend
  \/ SendResolved
  \/ SendRejected
  \/ StreamChunk
  \/ StreamEnd
  \/ StreamFails
  \/ RenderChat

ChatSpec == Init /\ [][ChatNext]_vars

(***************************************************************************)
(* App.handleFileUpload.  An upload is one call of the handler for a       *)
(* chosen file: the class of its extension, the await it is suspended at   *)
(* (or "done", "failed", "unsupported" once it has returned), the await    *)
(* that resolved last, the value of useSmartOCR the handler closed over    *)
(* and the content it stored.  Contents are sequences of characters or     *)
(* markup tokens.                                                          *)
(***************************************************************************)
FileKinds == {"docx", "pdf", "image", "doc", "other"}

Ended == {"done", "failed", "unsupported"}

\* U+0000 and U+FFFD, as one token each
Nul == "U+0000"

Replacement == "U+FFFD"

\* the values each awaited call can resolve with
Results(step) ==
  CASE step = "convertToHtml" -> {<<>>, <<"<p>", "w", "</p>">>}
    [] step = "analyzeImagesToLatex" -> {<<>>, <<"$", "y", "$">>}
    [] step = "extractTextFromPDF" -> {<<"#", "1">>}
    [] step = "text" -> {<<"t">>, <<"t", Nul>>, <<Replacement>>}
    [] OTHER -> {<<>>}

\* text.charCodeAt(0) === 65533 || text.includes('\0')
IsBinary(t) ==
  \/ Len(t) > 0 /\ t[1] = Replacement
  \/ \E k \in 1..Len(t) : t[k] = Nul

\* the first await of the branch of an extension
FirstStep(kind) ==
  CASE kind = "image" -> "readFileAsBase64"
    [] kind = "other" -> "unsupported"
    [] OTHER -> "arrayBuffer"

\* where the handler goes when the await it is suspended at resolves with v:
\* its next await, "done" when it stores the content, "failed" on the throw
\* of the .doc branch
NextStep(kind, smart, step, v) ==
  CASE step = "arrayBuffer" /\ kind = "pdf" ->
         IF smart THEN "convertPdfToImages" ELSE "extractTextFromPDF"
    [] step = "arrayBuffer" /\ kind # "pdf" -> "convertToHtml"
    [] step = "convertToHtml" /\ kind = "doc" -> IF v # <<>> THEN "done" ELSE "text"
    [] step = "convertPdfToImages" -> "analyzeImagesToLatex"
    [] step = "readFileAsBase64" -> "analyzeImagesToLatex"
    [] step = "text" -> IF IsBinary(v) THEN "failed" ELSE "done"
    [] OTHER -> "done"

\* the status line shown while the handler is suspended at a step
StatusAt(kind, step) ==
  CASE step = "convertPdfToImages" -> "Preparing Smart OCR..."
    [] step = "extractTextFromPDF" -> "Extracting raw text..."
    [] step = "analyzeImagesToLatex" /\ kind = "pdf" -> "Gemini AI is analyzing math formulas..."
    [] kind = "image" -> "Analyzing image with Gemini AI..."
    [] kind = "doc" -> "Processing .doc file..."
    [] OTHER -> "Reading file..."

\* the argument of setIsRichText next to the setRawText of a branch
CommitRichPdf(kind, step) ==
  CASE kind = "docx" -> TRUE
    [] kind = "doc" -> step = "convertToHtml"
    [] kind = "pdf" -> TRUE
    [] OTHER -> FALSE

CommitRich(kind, step) ==
  CASE kind = "docx" -> TRUE
    [] kind = "doc" -> step = "convertToHtml"
    [] OTHER -> FALSE

\* the disabled attribute of the file input
FileInputNeverDisabled(importing) == FALSE

FileInputDisabled(importing) == importing

\* the change event of the file input, which a disabled input does not fire:
\* handleFileUpload up to its first await.  Without a file it returns; an
\* unsupported extension runs to the finally within the event.
ChooseFile ==
  /\ ~inputDisabled
  /\ Len(uploads) < MaxUploads
  /\ \E kind \in FileKinds \cup {"none"} :
        IF kind = "none"
          THEN UNCHANGED ivars
          ELSE /\ uploads' = Append(uploads, [kind |-> kind, step |-> FirstStep(kind),
                                              last |-> "none", smart |-> useSmartOCR,
                                              content |-> <<>>])
               /\ isImporting' = (FirstStep(kind) \notin Ended)
               /\ inputDisabled' = FileInputDisabled(isImporting')
               /\ importStatus' = StatusAt(kind, FirstStep(kind))
               /\ UNCHANGED <<rawText, useSmartOCR>>
  /\ UNCHANGED isRichText
  /\ UNCHANGED <<pvars, segments, style, index, htmls, outcomes, bodyContent, blobCall,
                 asBlobCalls, download, exportError, isExportMenuOpen, epc, cvars>>

\* the await an upload is suspended at resolves: the handler runs to its next
\* await, or stores the content and the mode and passes the finally, or
\* throws on a binary .doc and passes the inner catch and the finally
AwaitResolved ==
  /\ \E k \in 1..Len(uploads) :
        /\ uploads[k].step \notin Ended
        /\ \E v \in Results(uploads[k].step) :
              LET u == uploads[k]
                  n == NextStep(u.kind, u.smart, u.step, v)
              IN  /\ uploads' = [uploads EXCEPT ![k].step = n, ![k].last = u.step,
                                               ![k].content = IF n = "done" THEN v ELSE <<>>]
                  /\ CASE n = "done" ->
                            /\ rawText' = v
                            /\ isRichText' = CommitRich(u.kind, u.step)
                            /\ importStatus' = ""
                            /\ isImporting' = FALSE
                       [] n = "failed" ->
                            /\ importStatus' = "Error: Binary .doc"
                            /\ isImporting' = FALSE
                            /\ UNCHANGED <<rawText, isRichText>>
                       [] OTHER ->
                            /\ importStatus' = StatusAt(u.kind, n)
                            /\ UNCHANGED <<rawText, isRichText, isImporting>>
  /\ UNCHANGED <<useSmartOCR, inputDisabled>>
  /\ UNCHANGED <<pvars, segments, style, index, htmls, outcomes, bodyContent, blobCall,
                 asBlobCalls, download, exportError, isExportMenuOpen, epc, cvars>>

\* the await an upload is suspended at rejects: the first attempt of the .doc
\* branch goes on to the second, every other await ends in a catch and the
\* finally
AwaitRejected ==
  /\ \E k \in 1..Len(uploads) :
        LET u == uploads[k]
        IN  /\ u.step \notin Ended
            /\ IF u.kind = "doc" /\ u.step = "convertToHtml"
                 THEN /\ uploads' = [uploads EXCEPT ![k].step = "text"]
                      /\ UNCHANGED <<importStatus, isImporting>>
                 ELSE /\ uploads' = [uploads EXCEPT ![k].step = "failed"]
                      /\ importStatus' = IF u.kind = "doc" THEN "Error: Binary .doc" ELSE "Error"
                      /\ isImporting' = FALSE
  /\ UNCHANGED <<rawText, isRichText, useSmartOCR, inputDisabled>>
  /\ UNCHANGED <<pvars, segments, style, index, htmls, outcomes, bodyContent, blobCall,
                 asBlobCalls, download, exportError, isExportMenuOpen, epc, cvars>>

\* the render of the updates made after an await
RenderImport ==
  /\ inputDisabled # FileInputDisabled(isImporting)
  /\ inputDisabled' = FileInputDisabled(isImporting)
  /\ UNCHANGED <<rawText, isImporting, importStatus, useSmartOCR, uploads>>
  /\ UNCHANGED <<pvars, segments, evars, cvars>>

\* onChange of the editor
EditText ==
  /\ \E v \in {<<>>, <<"e">>} :
        /\ v # rawText
        /\ rawText' = v
  /\ UNCHANGED <<isImporting, importStatus, useSmartOCR, inputDisabled, uploads>>
  /\ UNCHANGED <<pvars, segments, evars, cvars>>

\* handleReset, confirmed
HandleReset ==
  /\ rawText' = <<>>
  /\ isRichText' = FALSE
  /\ importStatus' = ""
  /\ UNCHANGED <<isImporting, useSmartOCR, inputDisabled, uploads>>
  /\ UNCHANGED <<pvars, segments, style, index, htmls, outcomes, bodyContent, blobCall,
                 asBlobCalls, download, exportError, isExportMenuOpen, epc, cvars>>

\* the Text/HTML button
ToggleRichText ==
  /\ isRichText' = ~isRichText
  /\ UNCHANGED ivars
  /\ UNCHANGED <<pvars, segments, style, index, htmls, outcomes, bodyContent, blobCall,
                 asBlobCalls, download, exportError, isExportMenuOpen, epc, cvars>>

\* the Smart OCR/Legacy button
ToggleSmartOCR ==
  /\ useSmartOCR' = ~useSmartOCR
  /\ UNCHANGED <<rawText, isImporting, importStatus, inputDisabled, uploads>>
  /\ UNCHANGED <<pvars, segments, evars, cvars>>

ImportNext ==
  \/ ChooseFile
  \/ AwaitResolved
  \/ AwaitRejected
  \/ RenderImport
  \/ EditText
  \/ HandleReset
  \/ ToggleRichText
  \/ ToggleSmartOCR

ImportSpec == Init /\ [][ImportNext]_vars

(***************************************************************************)
(* Vocabulary of the properties of parseContent.                           *)
(***************************************************************************)
\* opening and closing delimiter of each alternative of the pattern
OpenDelim(alt) ==
  CASE alt = 1 -> DD
    [] alt = 2 -> <<BS, "[">>
    [] alt = 3 -> <<BS, "(">>
    [] alt = 4 -> <<"$">>
    [] OTHER -> <<>>

CloseDelim(alt) ==
  CASE alt = 1 -> DD
    [] alt = 2 -> <<BS, "]">>
    [] alt = 3 -> <<BS, ")">>
    [] alt = 4 -> <<"$">>
    [] OTHER -> <<>>

\* the original form of segment k: its content inside the delimiters of the
\* alternative it was matched with
Original(segs, sps, k) ==
  OpenDelim(sps[k].alt) \o segs[k].content \o CloseDelim(sps[k].alt)

RECURSIVE Concat(_, _, _)
Concat(segs, sps, k) ==
  IF k > Min(Len(segs), Len(sps)) THEN <<>>
  ELSE Original(segs, sps, k) \o Concat(segs, sps, k + 1)

Reconstruct(segs, sps) == Concat(segs, sps, 1)

MathIdx == {k \in 1..Min(Len(segments), Len(spans)) : spans[k].alt # 0}

TextIdx == {k \in 1..Min(Len(segments), Len(spans)) : spans[k].alt = 0}

Contains(s, d) == \E j \in 0..(Len(s) - Len(d)) : StartsAt(s, j, d)

Escaped(t, i) == StartsAt(t, i - 1, <<BS>>)

Dollars(t) == {i \in 0..(Len(t) - 1) : t[i + 1] = "$"}

(***************************************************************************)
(* C1: the segments partition the input: concatenating, in order, the text *)
(* contents and the math contents re-wrapped in the delimiters they were   *)
(* matched with gives the scanned prefix of the input at every point of    *)
(* the scan, and the whole input when parseContent returns.                *)
(***************************************************************************)
C1_RoundTripPartition ==
  /\ Len(segments) = Len(spans)
  /\ pc = "scan" => Reconstruct(segments, spans) = Slice(text, 0, lastIndex)
  /\ pc = "done" => Reconstruct(segments, spans) = text

C1_Witness ==
  /\ pc = "done"
  /\ Cardinality(MathIdx) >= 2
  /\ Cardinality(TextIdx) >= 2
  /\ spans[Len(spans)].alt = 0

(***************************************************************************)
(* C2: parseContent terminates for every input: every iteration of the     *)
(* scan loop moves the scan position strictly forward and never past the   *)
(* end of the input, the loop is eventually left, and the empty string     *)
(* gives the empty sequence.                                               *)
(***************************************************************************)
C2_Terminates ==
  /\ [][pc = "scan" /\ pc' = "scan" => lastIndex < lastIndex' /\ lastIndex' <= Len(text)]_vars
  /\ [](pc = "done" /\ text = <<>> => segments = <<>>)
  /\ <>(pc = "done")

C2_Witness ==
  /\ pc = "done"
  /\ text = <<"$", "$", "$", "$", "$", "$">>
  /\ Len(segments) = 2

(***************************************************************************)
(* C3: no math segment of the $...$ or the $$...$$ form opens at a $ that  *)
(* is immediately preceded by a backslash, and an input whose dollar signs *)
(* are all escaped yields no math segment of these forms.                  *)
(***************************************************************************)
C3_EscapedDollarNeverOpens ==
  /\ \A k \in MathIdx : spans[k].alt \in {1, 4} => ~Escaped(text, spans[k].from)
  /\ (pc = "done" /\ \A i \in Dollars(text) : Escaped(text, i))
        => \A k \in MathIdx : spans[k].alt \notin {1, 4}

(***************************************************************************)
(* C4: an opening delimiter without a closing delimiter later in the input *)
(* (a stray unescaped $, an unclosed $$, \[ or \() starts no math segment  *)
(* and, unless it lies inside a math span opened before it, its characters *)
(* lie in a text segment; an input with exactly one $ and no other         *)
(* delimiter is a single text segment equal to the input.                  *)
(***************************************************************************)
UnclosedLen(t, i) ==
  IF StartsAt(t, i, DD) /\ indexOf(t, DD, i + 2) = -1 THEN 2
  ELSE IF StartsAt(t, i, <<BS, "[">>) /\ indexOf(t, <<BS, "]">>, i + 2) = -1 THEN 2
  ELSE IF StartsAt(t, i, <<BS, "(">>) /\ indexOf(t, <<BS, ")">>, i + 2) = -1 THEN 2
  ELSE IF StartsAt(t, i, <<"$">>) /\ ~Escaped(t, i) /\ indexOf(t, <<"$">>, i + 1) = -1 THEN 1
  ELSE 0

NoBackslashDelimiter(t) ==
  \A d \in {<<BS, "[">>, <<BS, "]">>, <<BS, "(">>, <<BS, ")">>} : ~Contains(t, d)

C4_UnclosedOpenerIsText ==
  pc = "done" =>
    /\ \A i \in 0..(Len(text) - 1) :
         UnclosedLen(text, i) > 0 =>
           /\ \A k \in MathIdx : spans[k].from # i
           /\ \/ \E k \in MathIdx : spans[k].from < i /\ i < spans[k].to
              \/ \E k \in TextIdx : spans[k].from <= i /\ i + UnclosedLen(text, i) <= spans[k].to
    /\ (Cardinality(Dollars(text)) = 1 /\ NoBackslashDelimiter(text))
         => segments = <<TextSeg(text)>>

(***************************************************************************)
(* C5: every math segment has the delimiters of the alternative it was     *)
(* matched with stripped, and its displayMode is that of the alternative:  *)
(* true for $$...$$ and \[...\], false for \(...\) and $...$.              *)
(***************************************************************************)
C5_StrippedAndModePerFamily ==
  \A k \in MathIdx :
    LET s == spans[k]
    IN segments[k] = MathSeg(Slice(text, s.from + Len(OpenDelim(s.alt)),
                                   s.to - Len(CloseDelim(s.alt))),
                             s.alt \in {1, 2})

(***************************************************************************)
(* C6: the scan goes left to right and the alternatives are tried in the   *)
(* order $$...$$, \[...\], \(...\), $...$: the segment produced at a       *)
(* position is the one of the first alternative that matches there (so the *)
(* display-mode $$...$$ one whenever a complete $$...$$ span starts        *)
(* there), no earlier position of the gap before it starts a match, and    *)
(* the spans follow one another without overlap.                           *)
(***************************************************************************)
C6_PriorityAndNoOverlap ==
  /\ \A k \in MathIdx :
       LET s == spans[k]
       IN /\ \A a \in 1..4 : a < s.alt => AltEnd(text, s.from, a) = -1
          /\ AltEnd(text, s.from, s.alt) = s.to
          /\ AltDollarDollar(text, s.from) # -1
               => s.alt = 1 /\ segments[k].displayMode
                            /\ segments[k].content = Slice(text, s.from + 2, s.to - 2)
  /\ \A k \in TextIdx :
       \A i \in spans[k].from..(spans[k].to - 1) : \A a \in 1..4 : AltEnd(text, i, a) = -1
  /\ \A k \in 1..Len(spans) :
       /\ spans[k].from < spans[k].to
       /\ spans[k].from = (IF k = 1 THEN 0 ELSE spans[k - 1].to)

C6_Witness ==
  /\ pc = "done"
  /\ \E k \in MathIdx :
       /\ spans[k].alt = 1
       /\ AltDollar(text, spans[k].from) # -1
       /\ spans[k].to - spans[k].from > 4
  /\ Cardinality(MathIdx) >= 2

(***************************************************************************)
(* C7: a math span ends at the nearest closing delimiter: the content of a *)
(* segment matched as $$...$$ contains no $$, as \[...\] no \], as \(...\) *)
(* no \), and as $...$ no $.                                               *)
(***************************************************************************)
C7_NearestClose ==
  \A k \in MathIdx : ~Contains(segments[k].content, CloseDelim(spans[k].alt))

C7_Witness ==
  /\ pc = "done"
  /\ \E k \in MathIdx :
       /\ spans[k].alt \in {1, 2, 3}
       /\ segments[k].content # <<>>
       /\ indexOf(text, CloseDelim(spans[k].alt), spans[k].to) # -1

RECURSIVE Body(_, _, _, _)
Body(segs, st, hs, k) ==
  IF k > Len(hs) THEN <<>>
  ELSE Accumulate(segs[k], st, hs[k]) \o Body(segs, st, hs, k + 1)

Failed(k) == outcomes[k] \in {"throw", "nomatch"}

(***************************************************************************)
(* C9: when the typesetting collaborator throws or returns no math         *)
(* fragment for a math segment, the markup of that segment is the error    *)
(* placeholder ([LaTeX Error], [Equation Error]), the exception does not   *)
(* leave the serializer, the document handed to the packager holds the     *)
(* markup of every segment, and the markup of each segment that rendered   *)
(* is what it is when every segment renders.                               *)
(***************************************************************************)
C9_MathFailureDegrades ==
  /\ Len(htmls) = index /\ Len(outcomes) = index
  /\ \A k \in 1..Len(htmls) :
       /\ outcomes[k] = "throw" => htmls[k] = <<LatexError>>
       /\ outcomes[k] = "nomatch" => htmls[k] = <<EquationError>>
       /\ ~Failed(k) => htmls[k] = SegmentHtml(segments[k], isRichText, style,
                                               IF segments[k].type = "math" THEN "ok" ELSE "none")
  /\ bodyContent = Body(segments, style, htmls, 1)
  /\ exportError # "serializer"
  /\ epc \in {"await", "done", "failed"} => index = Len(segments)

C9_Witness ==
  /\ epc = "done"
  /\ Len(segments) = 3
  /\ outcomes[1] = "throw"
  /\ outcomes[2] = "nomatch"
  /\ outcomes[3] = "ok"

(***************************************************************************)
(* C10: an export calls the packaging collaborator exactly once, after all *)
(* segments have been serialized; the serializer raises nothing itself; a  *)
(* packaging failure is the only failure that reaches handleExport, and it *)
(* is followed by no second call, no result and no download.               *)
(***************************************************************************)
C10_PackagedOnceFailureOnlyFromPackager ==
  /\ asBlobCalls <= 1
  /\ asBlobCalls = 1 <=> epc \in {"await", "done", "failed"}
  /\ asBlobCalls = 1 =>
       /\ index = Len(segments)
       /\ Len(htmls) = Len(segments)
       /\ blobCall.html.body = bodyContent
  /\ exportError \in {"none", "packaging"}
  /\ epc = "failed" <=> exportError = "packaging"
  /\ epc = "failed" => download = NoDownload
  /\ download # NoDownload <=> epc = "done"

C10_Witness ==
  /\ epc = "failed"
  /\ exportError = "packaging"
  /\ asBlobCalls = 1
  /\ Len(segments) >= 2
  /\ \E k \in 1..Len(outcomes) : outcomes[k] = "throw"

(***************************************************************************)
(* C11: the layout directives of the exported document are those of the    *)
(* row of its style, whatever the segments and the rich-text flag: margins *)
(* 1in for standard, worksheet, landscape, large-print and flashcards,     *)
(* 0.5in for minimal and two-column, 1.5in for draft, a 2.5in left margin  *)
(* for notes; landscape orientation only for landscape; 16pt Arial only    *)
(* for large-print; line height 1.2 for minimal, 1.6 for large-print, 2.0  *)
(* for draft, 1.5 otherwise; two-column flow only for two-column.          *)
(***************************************************************************)
TwoColumnFlow == ".Section1 { column-count: 2; column-gap: 36pt; }"

C11_StyleTable ==
  asBlobCalls = 1 =>
    LET css == blobCall.html.css
    IN /\ style \in {"standard", "worksheet", "landscape", "large-print", "flashcards"}
            => css.pageMargin = "1in"
       /\ style \in {"minimal", "two-column"} => css.pageMargin = "0.5in"
       /\ style = "draft" => css.pageMargin = "1.5in"
       /\ style = "notes" => css.pageMargin = "1in 1in 1in 2.5in"
       /\ css.orientation = (IF style = "landscape" THEN "landscape" ELSE "portrait")
       /\ <<css.fontSize, css.fontFamily>>
            = (IF style = "large-print" THEN <<"16pt", "Arial, sans-serif">>
               ELSE <<"12pt", "'Times New Roman', serif">>)
       /\ style = "minimal" => css.lineHeight = "1.2"
       /\ style = "large-print" => css.lineHeight = "1.6"
       /\ style = "draft" => css.lineHeight = "2.0"
       /\ style \notin {"minimal", "large-print", "draft"} => css.lineHeight = "1.5"
       /\ css.extraCss = TwoColumnFlow <=> style = "two-column"

C11_Witness ==
  /\ epc = "done"
  /\ style = "landscape"
  /\ isRichText
  /\ Len(segments) = MaxSegs
  /\ blobCall.html.css.orientation = "landscape"

(***************************************************************************)
(* Vocabulary of the properties of the markup of a segment.                *)
(***************************************************************************)
\* the number of occurrences of a token in markup
RECURSIVE Count(_, _)
Count(html, tok) ==
  IF html = <<>> THEN 0
  ELSE (IF Head(html) = tok THEN 1 ELSE 0) + Count(Tail(html), tok)

\* the serialized text segments and the serialized math segments
TextSegs == {k \in 1..Len(htmls) : segments[k].type = "text"}

MathSegs == {k \in 1..Len(htmls) : segments[k].type = "math"}

\* a content that contains a section keyword or is longer than 50 characters
Qualifies(content) ==
  \/ Contains(content, Cau)
  \/ Contains(content, Bai)
  \/ Len(content) > LongTextLength

\* the markup ends with the block of answer lines and holds no other one
EndsWithAnswerLines(html) ==
  /\ Count(html, writingLines) = 1
  /\ html[Len(html)] = writingLines

(***************************************************************************)
(* C12 as stated: with style worksheet, the block of three dotted answer   *)
(* lines is appended immediately after the markup of a text segment        *)
(* exactly when its content contains Cau or Bai or is longer than 50       *)
(* characters (50 characters without a keyword do not qualify), and under  *)
(* no other style.                                                         *)
(***************************************************************************)
C12_AnswerLinesAsStated ==
  /\ \A k \in TextSegs :
       IF style = "worksheet" /\ Qualifies(segments[k].content)
       THEN EndsWithAnswerLines(htmls[k])
       ELSE Count(htmls[k], writingLines) = 0
  /\ \A k \in MathSegs : Count(htmls[k], writingLines) = 0

(***************************************************************************)
(* C12, amended: with style worksheet and richText = false, the block of   *)
(* three dotted answer lines is appended immediately after the markup of a *)
(* text segment exactly when its content contains Cau or Bai or is longer  *)
(* than 50 characters (50 characters without a keyword do not qualify); it *)
(* is appended under no other style and never when richText = true.        *)
(***************************************************************************)
C12_AnswerLines ==
  /\ \A k \in TextSegs :
       IF style = "worksheet" /\ ~isRichText /\ Qualifies(segments[k].content)
       THEN /\ EndsWithAnswerLines(htmls[k])
            /\ SubSeq(htmls[k], 1, Len(htmls[k]) - 1) = TextHtml(segments[k].content, FALSE)
       ELSE Count(htmls[k], writingLines) = 0
  /\ \A k \in MathSegs : Count(htmls[k], writingLines) = 0
  /\ Count(bodyContent, writingLines)
       = Cardinality({k \in TextSegs : style = "worksheet" /\ ~isRichText
                                          /\ Qualifies(segments[k].content)})

C12_Witness ==
  /\ epc = "done"
  /\ style = "worksheet"
  /\ ~isRichText
  /\ Len(segments[1].content) = LongTextLength + 1
  /\ ~Contains(segments[1].content, Cau)
  /\ EndsWithAnswerLines(htmls[1])

(***************************************************************************)
(* C13: with style worksheet, exactly one blank spacer paragraph is        *)
(* appended after every display-mode math segment; none is appended after  *)
(* an inline math segment, after a text segment or under any other style.  *)
(***************************************************************************)
C13_SpacerAfterDisplayMath ==
  /\ \A k \in MathSegs :
       IF style = "worksheet" /\ segments[k].displayMode
       THEN /\ Count(htmls[k], WorksheetSpacer) = 1
            /\ htmls[k][Len(htmls[k])] = WorksheetSpacer
       ELSE Count(htmls[k], WorksheetSpacer) = 0
  /\ \A k \in TextSegs : Count(htmls[k], WorksheetSpacer) = 0

(***************************************************************************)
(* C14: with style flashcards, every non-empty text segment and every      *)
(* display-mode math segment is wrapped in a card container of its own,    *)
(* for both values of richText; inline math segments and empty text        *)
(* segments are appended to the body without a card container; under every *)
(* other style the body holds no card container.                           *)
(***************************************************************************)
\* the segments the statement gives a card
CardSegment(seg) ==
  \/ seg.type = "text" /\ seg.content # <<>>
  \/ seg.type = "math" /\ seg.displayMode

\* the body the statement describes for the segments serialized from k on
RECURSIVE CardBody(_)
CardBody(k) ==
  IF k > Len(htmls) THEN <<>>
  ELSE (IF style = "flashcards" /\ CardSegment(segments[k])
        THEN <<CardOpen>> \o htmls[k] \o <<DivClose>>
        ELSE htmls[k])
         \o CardBody(k + 1)

C14_OneCardPerSegment ==
  /\ bodyContent = CardBody(1)
  /\ style # "flashcards" => Count(bodyContent, CardOpen) = 0

(***************************************************************************)
(* C15: with style flashcards, the markup of an inline math segment that   *)
(* sits inside a run of text is emitted inside the card container of that  *)
(* text chunk: no inline math fragment of the body lies outside every      *)
(* card.                                                                   *)
(***************************************************************************)
\* the number of card containers open at position p of the body
CardDepth(body, p) ==
  Count(SubSeq(body, 1, p), CardOpen) - Count(SubSeq(body, 1, p), DivClose)

\* segment k is a non-empty text segment
IsTextChunk(k) ==
  /\ k \in 1..Len(segments)
  /\ segments[k].type = "text"
  /\ segments[k].content # <<>>

\* segment k is an inline math segment next to a text chunk
InlineInText(k) ==
  /\ segments[k].type = "math"
  /\ ~segments[k].displayMode
  /\ IsTextChunk(k - 1) \/ IsTextChunk(k + 1)

C15_InlineMathInsideCard ==
  (/\ style = "flashcards"
   /\ \A k \in 1..Len(segments) :
        segments[k].type = "math" /\ ~segments[k].displayMode => InlineInText(k))
    => \A p \in 1..Len(bodyContent) :
         bodyContent[p] = MathOpen(FALSE) => CardDepth(bodyContent, p) >= 1

(***************************************************************************)
(* C16: for styles minimal and draft in plain-text mode, the section and   *)
(* sub-item highlight spans are still inserted but carry no accent colour: *)
(* every colour written for the headings and for the highlight spans is    *)
(* the neutral colour, while the other seven styles use the accent         *)
(* colours.                                                                *)
(***************************************************************************)
NeutralColour == "#000000"

PlainStyle == style \in {"minimal", "draft"}

\* the highlight spans of a markup
HighlightSpans(html) == {p \in 1..Len(html) : html[p] \in {SpanSection, SpanSubItem}}

C16_NeutralColoursWhenPlain ==
  /\ asBlobCalls = 1 =>
       LET css == blobCall.html.css
       IN IF PlainStyle
          THEN css.headingColor1 = NeutralColour /\ css.headingColor2 = NeutralColour
          ELSE css.headingColor1 = "#2E74B5" /\ css.headingColor2 = "#1F4D78"
  /\ ~isRichText =>
       \A k \in TextSegs :
         /\ Cardinality(HighlightSpans(htmls[k]))
              = Cardinality(HighlightSpans(TextHtml(segments[k].content, FALSE)))
         /\ \A p \in HighlightSpans(htmls[k]) :
              IF PlainStyle
              THEN TagColour(htmls[k][p]) \in {NeutralColour, "none"}
              ELSE TagColour(htmls[k][p]) \in {"#0284c7", "#0369a1"}

(***************************************************************************)
(* C17: with richText = true, the content of each text segment is emitted  *)
(* into the body unescaped and unmodified, with no highlight span and no   *)
(* line-break conversion, under every style; only math segments are        *)
(* transformed.                                                            *)
(***************************************************************************)
\* markup without the tags of the card containers
RECURSIVE WithoutCards(_)
WithoutCards(html) ==
  IF html = <<>> THEN <<>>
  ELSE (IF Head(html) \in {CardOpen, DivClose} THEN <<>> ELSE <<Head(html)>>)
         \o WithoutCards(Tail(html))

\* the contents of the text segments and the markup of the math segments
\* serialized from k on, in order
RECURSIVE PassThrough(_)
PassThrough(k) ==
  IF k > Len(htmls) THEN <<>>
  ELSE (IF segments[k].type = "text" THEN segments[k].content ELSE htmls[k])
         \o PassThrough(k + 1)

C17_RichTextPassThrough ==
  isRichText =>
    /\ \A k \in TextSegs :
         /\ htmls[k] = segments[k].content
         /\ \A tok \in {SpanSection, SpanSubItem, SpanTextRun, Br, writingLines} :
              Count(htmls[k], tok) = 0
    /\ \A k \in MathSegs : htmls[k] # segments[k].content
    /\ WithoutCards(bodyContent) = PassThrough(1)

C17_Witness ==
  /\ epc = "done"
  /\ isRichText
  /\ style = "worksheet"
  /\ Len(segments) = 2
  /\ segments[1].type = "text"
  /\ Contains(segments[1].content, <<NL, "a", ")", " ", "p", "&">>)
  /\ segments[2].type = "math"
  /\ bodyContent # segments[1].content
  /\ SubSeq(bodyContent, 1, Len(segments[1].content)) = segments[1].content

(***************************************************************************)
(* C18: with richText = false, the markup of a text segment has every &,   *)
(* < and > of the content replaced by &amp;, &lt; and &gt;, each input     *)
(* character escaped exactly once, and every line break of the content     *)
(* replaced by a <br/> marker: no raw line break remains and none is lost. *)
(***************************************************************************)
\* the number of places at which d occurs in s
Occurrences(s, d) == Cardinality({j \in 0..(Len(s) - Len(d)) : StartsAt(s, j, d)})

Amp == <<"&", "a", "m", "p", ";">>

Lt == <<"&", "l", "t", ";">>

Gt == <<"&", "g", "t", ";">>

EscapedOnce(content, html) ==
  /\ Count(html, "<") = 0
  /\ Count(html, ">") = 0
  /\ Occurrences(html, Amp) = Count(content, "&")
  /\ Occurrences(html, Lt) = Count(content, "<")
  /\ Occurrences(html, Gt) = Count(content, ">")
  /\ Count(html, "&") = Count(content, "&") + Count(content, "<") + Count(content, ">")

LineBreaksKept(content, html) ==
  /\ Count(html, NL) = 0
  /\ Count(html, Br) = Count(content, NL)

C18_EscapedAndLineBreaksKept ==
  ~isRichText =>
    \A k \in TextSegs :
      /\ EscapedOnce(segments[k].content, htmls[k])
      /\ LineBreaksKept(segments[k].content, htmls[k])

(***************************************************************************)
(* C19: in plain-text mode, highlight spans are inserted only for markers  *)
(* at a line start (the first character of the text or right after a line  *)
(* break); a sub-item marker is highlighted exactly when a lowercase       *)
(* letter followed by ) and a whitespace character stands at a line start; *)
(* the two patterns are independent: the section pass neither prevents nor *)
(* changes a match of the sub-item pass.                                   *)
(***************************************************************************)
\* position i of the text is a line start
AtLineStart(c, i) == i = 0 \/ c[i] = NL

\* the sub-item markers at the line starts of a text
SubItemMarkers(c) == {i \in 0..(Len(c) - 1) : AtLineStart(c, i) /\ SubItemAt(c, i)}

\* every highlight span of the markup of a text segment stands right after
\* the opening of the text run or right after a line-break marker
SpansAtLineStarts(html) ==
  \A p \in HighlightSpans(html) : p > 1 /\ html[p - 1] \in {SpanTextRun, Br}

C19_LineStartMarkersIndependent ==
  ~isRichText =>
    \A k \in TextSegs :
      LET c == segments[k].content
      IN /\ SpansAtLineStarts(htmls[k])
         /\ Count(htmls[k], SpanSubItem) = Cardinality(SubItemMarkers(c))
         /\ Count(htmls[k], SpanSubItem)
              = Count(HighlightSubItems(EscapeHtml(c), 0), SpanSubItem)
         /\ Count(htmls[k], SpanSection)
              = Count(HighlightSections(EscapeHtml(c), 0), SpanSection)

(***************************************************************************)
(* C20: in plain-text mode, a section-marker span is inserted exactly for  *)
(* the text that, at a line start, consists of the literal word Cau or     *)
(* Bai, whitespace, and a number in Arabic digits or Roman numerals,       *)
(* optionally followed by . or :; the span covers exactly that marker and  *)
(* no other text is wrapped as a section marker.                           *)
(***************************************************************************)
\* a digit or a Roman digit
IsNumeralChar(c) ==
  c \in {"0", "1", "2", "3", "4", "5", "6", "7", "8", "9", "I", "V", "X"}

RECURSIVE SkipNumeral(_, _)
SkipNumeral(s, i) ==
  IF i < Len(s) /\ IsNumeralChar(s[i + 1]) THEN SkipNumeral(s, i + 1) ELSE i

\* the end of the section marker that starts at position i, -1 without one
MarkerEnd(s, i) ==
  IF /\ StartsAt(s, i, Cau) \/ StartsAt(s, i, Bai)
     /\ SkipSpaces(s, i + 3) > i + 3
     /\ SkipNumeral(s, SkipSpaces(s, i + 3)) > SkipSpaces(s, i + 3)
  THEN LET n == SkipNumeral(s, SkipSpaces(s, i + 3))
       IN IF n < Len(s) /\ s[n + 1] \in {".", ":"} THEN n + 1 ELSE n
  ELSE -1

\* the section markers at the line starts of a text
SectionMarkers(s) == {i \in 0..(Len(s) - 1) : AtLineStart(s, i) /\ MarkerEnd(s, i) # -1}

\* the span that covers the marker at position i
MarkerSpan(s, i) ==
  <<SpanSection>> \o ReplaceAll(Slice(s, i, MarkerEnd(s, i)), NL, <<Br>>) \o <<SpanClose>>

C20_SectionSpanExactlyMarker ==
  ~isRichText =>
    \A k \in TextSegs :
      LET e == EscapeHtml(segments[k].content)
      IN /\ Count(htmls[k], SpanSection) = Cardinality(SectionMarkers(e))
         /\ \A i \in SectionMarkers(e) : Contains(htmls[k], MarkerSpan(e, i))

(***************************************************************************)
(* C21: the layout directives handed to asBlob agree with the style: the   *)
(* orientation passed is the orientation of the style, and the margins     *)
(* passed are the page margins the markup declares for the style, for each *)
(* of the nine styles.                                                     *)
(***************************************************************************)
\* the page margins of the @page rule in twips (1in = 1440 twips)
MarginTwips(pageMargin) ==
  CASE pageMargin = "1in" -> [top |-> 1440, bottom |-> 1440, left |-> 1440, right |-> 1440]
    [] pageMargin = "0.5in" -> [top |-> 720, bottom |-> 720, left |-> 720, right |-> 720]
    [] pageMargin = "1.5in" -> [top |-> 2160, bottom |-> 2160, left |-> 2160, right |-> 2160]
    [] pageMargin = "1in 1in 1in 2.5in"
         -> [top |-> 1440, bottom |-> 1440, left |-> 3600, right |-> 1440]

C21_DirectivesAgreeWithStyle ==
  asBlobCalls = 1 =>
    /\ blobCall.options.orientation = blobCall.html.css.orientation
    /\ blobCall.options.orientation = (IF style = "landscape" THEN "landscape" ELSE "portrait")
    /\ blobCall.options.margins = MarginTwips(blobCall.html.css.pageMargin)

(***************************************************************************)
(* C22: highlighting in plain-text mode is purely cosmetic: deleting the   *)
(* highlight span tags from the markup of a text segment gives exactly its *)
(* escaped content with the line breaks converted, so no character of the  *)
(* text is added, dropped or changed; the markup of the math segments      *)
(* holds no highlight span.                                                *)
(***************************************************************************)
\* markup without the highlight spans: their opening tags and, for each,
\* the closing tag that follows it (open tells whether one is pending)
RECURSIVE StripHighlight(_, _)
StripHighlight(html, open) ==
  IF html = <<>> THEN <<>>
  ELSE IF Head(html) \in {SpanSection, SpanSubItem} THEN StripHighlight(Tail(html), TRUE)
  ELSE IF open /\ Head(html) = SpanClose THEN StripHighlight(Tail(html), FALSE)
  ELSE <<Head(html)>> \o StripHighlight(Tail(html), open)

\* the escaped content with the line breaks converted, in its text run
PlainMarkup(content) ==
  <<SpanTextRun>> \o ReplaceAll(EscapeHtml(content), NL, <<Br>>) \o <<SpanClose>>

\* markup without the block of answer lines
WithoutAnswerLines(html) ==
  IF html # <<>> /\ html[Len(html)] = writingLines THEN SubSeq(html, 1, Len(html) - 1) ELSE html

C22_HighlightingCosmetic ==
  /\ ~isRichText =>
       \A k \in TextSegs :
         StripHighlight(WithoutAnswerLines(htmls[k]), FALSE) = PlainMarkup(segments[k].content)
  /\ \A k \in MathSegs : HighlightSpans(htmls[k]) = {}

(***************************************************************************)
(* C23: the text segments are exactly the gaps between the matches, copied *)
(* verbatim: parseContent emits one text segment for every non-empty gap   *)
(* before, between and after the math spans, with the characters of the    *)
(* gap unchanged, never an empty text segment and never two text segments  *)
(* next to each other.                                                     *)
(***************************************************************************)
\* the gap that ends where span k starts: from the end of the math span
\* before it, or from the start of the input
GapStart(k) == IF k = 1 THEN 0 ELSE spans[k - 1].to

C23_TextSegmentsAreGaps ==
  /\ Len(segments) = Len(spans)
  /\ \A k \in 1..Len(segments) :
       /\ segments[k].type = "text" <=> spans[k].alt = 0
       /\ segments[k].type = "text" =>
            /\ segments[k].content # <<>>
            /\ segments[k].content = Slice(text, spans[k].from, spans[k].to)
            /\ spans[k].from = GapStart(k)
            /\ k > 1 => segments[k - 1].type = "math"
       /\ segments[k].type = "math" =>
            /\ spans[k].from = GapStart(k)
            /\ \A a \in 1..4 : \A i \in GapStart(k)..(spans[k].from - 1) : AltEnd(text, i, a) = -1
  /\ pc = "scan" => lastIndex = (IF spans = <<>> THEN 0 ELSE spans[Len(spans)].to)
  /\ pc = "done" => Len(text) = (IF spans = <<>> THEN 0 ELSE spans[Len(spans)].to)

C23_Witness ==
  /\ pc = "done"
  /\ Len(segments) = 5
  /\ \A k \in {1, 3, 5} : segments[k].type = "text"
  /\ \E k \in {1, 3, 5} : Contains(segments[k].content, <<NL>>) \/ Contains(segments[k].content, <<" ">>)

(***************************************************************************)
(* C24: a math segment that renders is emitted as a centred block          *)
(* paragraph when its displayMode is true and as a bare inline fragment    *)
(* without a block wrapper when its displayMode is false, under every      *)
(* style and for both values of richText.                                  *)
(***************************************************************************)
\* the <math> element of a rendered segment: its opening tag, its content
\* and its closing tag, at the start of a markup
IsMathElement(html, display) ==
  /\ Len(html) >= 2
  /\ html[1] = MathOpen(display)
  /\ html[Len(html)] = MathClose
  /\ Count(html, MathClose) = 1
  /\ Count(html, AnnotationOpen) = 0

\* markup without the spacer of the worksheet style
WithoutSpacer(html) ==
  IF html # <<>> /\ html[Len(html)] = WorksheetSpacer THEN SubSeq(html, 1, Len(html) - 1)
  ELSE html

C24_BlockOrInlineByDisplayMode ==
  \A k \in MathSegs :
    outcomes[k] = "ok" =>
      IF segments[k].displayMode
      THEN LET h == WithoutSpacer(htmls[k])
           IN /\ Len(h) >= 4
              /\ h[1] = EquationOpen
              /\ h[Len(h)] = PClose
              /\ IsMathElement(SubSeq(h, 2, Len(h) - 1), TRUE)
              /\ Count(htmls[k], EquationOpen) = 1
      ELSE /\ IsMathElement(htmls[k], FALSE)
           /\ Count(htmls[k], EquationOpen) = 0
           /\ Count(htmls[k], PClose) = 0

C24_Witness ==
  /\ epc = "done"
  /\ isRichText
  /\ style = "two-column"
  /\ Len(segments) = 2
  /\ segments[1].type = "math" /\ segments[1].displayMode /\ outcomes[1] = "ok"
  /\ segments[2].type = "math" /\ ~segments[2].displayMode /\ outcomes[2] = "ok"

(***************************************************************************)
(* C25: in plain-text mode the preview and the exported document highlight *)
(* the same markers: for every text segment, the section and sub-item      *)
(* markers HighlightedText styles are, in order, those that                *)
(* generateWordCompatibleFile wraps in a highlight span.                   *)
(***************************************************************************)
\* the kinds of the highlight spans of a markup, in order
RECURSIVE SpanKinds(_)
SpanKinds(html) ==
  IF html = <<>> THEN <<>>
  ELSE (IF Head(html) = SpanSection THEN <<"section">>
        ELSE IF Head(html) = SpanSubItem THEN <<"subitem">>
        ELSE <<>>)
         \o SpanKinds(Tail(html))

C25_PreviewMatchesExport ==
  ~isRichText =>
    \A k \in TextSegs : HighlightedText(segments[k].content) = SpanKinds(htmls[k])

(***************************************************************************)
(* C26: the body is the concatenation of the fragments of the segments in  *)
(* segment order: each serialized segment contributes exactly one          *)
(* fragment, its markup, bare or inside one card container, and none is    *)
(* dropped, duplicated or reordered, under every style and for both values *)
(* of richText; the document is packaged when every segment has            *)
(* contributed.                                                            *)
(***************************************************************************)
\* body is the fragments of the segments from k on, in order
RECURSIVE IsFragments(_, _)
IsFragments(body, k) ==
  IF k > Len(htmls) THEN body = <<>>
  ELSE LET bare == htmls[k]
           card == <<CardOpen>> \o htmls[k] \o <<DivClose>>
       IN \/ /\ Len(body) >= Len(bare)
             /\ SubSeq(body, 1, Len(bare)) = bare
             /\ IsFragments(SubSeq(body, Len(bare) + 1, Len(body)), k + 1)
          \/ /\ Len(body) >= Len(card)
             /\ SubSeq(body, 1, Len(card)) = card
             /\ IsFragments(SubSeq(body, Len(card) + 1, Len(body)), k + 1)

\* the markup of the segments serialized from k on, in order
RECURSIVE JoinHtmls(_)
JoinHtmls(k) == IF k > Len(htmls) THEN <<>> ELSE htmls[k] \o JoinHtmls(k + 1)

C26_BodyIsFragmentsInOrder ==
  /\ Len(htmls) = index
  /\ index <= Len(segments)
  /\ IsFragments(bodyContent, 1)
  /\ WithoutCards(bodyContent) = JoinHtmls(1)
  /\ Count(bodyContent, CardOpen) = Count(bodyContent, DivClose)
  /\ Count(bodyContent, CardOpen) <= Len(htmls)
  /\ asBlobCalls = 1 => index = Len(segments) /\ blobCall.html.body = bodyContent

C26_Witness ==
  /\ epc = "done"
  /\ style = "flashcards"
  /\ ~isRichText
  /\ Len(segments) = 3
  /\ segments[1].type = "math" /\ ~segments[1].displayMode
  /\ segments[2].type = "text" /\ segments[2].content # <<>>
  /\ segments[3].type = "math" /\ segments[3].displayMode
  /\ Count(bodyContent, CardOpen) = 2
  /\ bodyContent[1] # CardOpen

(***************************************************************************)
(* Vocabulary of the properties of GeminiChat.                             *)
(***************************************************************************)
\* the requests whose response has neither completed nor failed
InFlight == {k \in 1..Len(requests) : requests[k].phase \in {"sending", "streaming"}}

\* C27: at most one request to the chat service is in flight at any time.
\* isLoading is true exactly while a request is in flight, so it is false
\* again after every send, completed or failed part-way, and the handlers of
\* the last render see it true whenever it is true; a step that sends a new
\* request is taken only when isLoading is false, the input is not blank and
\* a chat session exists.
C27_OneRequestInFlight ==
  /\ [](/\ Cardinality(InFlight) <= 1
        /\ isLoading <=> InFlight # {}
        /\ isLoading => renderedIsLoading)
  /\ [][Len(requests') > Len(requests) =>
          /\ ~isLoading
          /\ NonBlank(input)
          /\ chatSessionRef # "null"
          /\ Len(requests') = Len(requests) + 1]_vars

\* a response failed after its first chunk, and a later one completed
C27_Witness ==
  /\ Len(requests) = 2
  /\ requests[1].phase = "failed"
  /\ requests[1].chunks >= 1
  /\ requests[2].phase = "done"
  /\ ~isLoading

(***************************************************************************)
(* Vocabulary of the properties of handleFileUpload.                       *)
(***************************************************************************)
\* the uploads whose handler has not returned
Running == {k \in 1..Len(uploads) : uploads[k].step \notin Ended}

\* the upload a step has started or moved on, 0 when the step is of no upload
Stepped ==
  IF Len(uploads') > Len(uploads) THEN Len(uploads')
  ELSE IF uploads' # uploads
    THEN CHOOSE k \in 1..Len(uploads) : uploads'[k] # uploads[k]
    ELSE 0

\* C28: isImporting is true from the choice of a file until the handler
\* returns, and false after it has returned on whichever path (content
\* stored, early return of the .doc branch, unsupported extension, thrown
\* error); the file input is disabled while isImporting is true, so an upload
\* starts only when none is running, and never two run at once.
C28_ImportingUntilReturn ==
  /\ [](/\ isImporting <=> Running # {}
        /\ isImporting => inputDisabled
        /\ Cardinality(Running) <= 1)
  /\ [][Len(uploads') > Len(uploads) =>
          /\ Running = {}
          /\ ~isImporting
          /\ isImporting' <=> uploads'[Len(uploads')].step \notin Ended]_vars

\* a .doc file was stored by the early return of its first attempt, and a
\* later upload ended in a thrown error
C28_Witness ==
  /\ Len(uploads) = 2
  /\ uploads[1].kind = "doc"
  /\ uploads[1].step = "done"
  /\ uploads[1].last = "convertToHtml"
  /\ uploads[2].step = "failed"
  /\ ~isImporting

\* the awaits that end the reading, conversion or transcription of a source
FinalSteps == {"convertToHtml", "analyzeImagesToLatex", "extractTextFromPDF", "text"}

\* C29: a step of an upload that does not end it with its content stored
\* (a start, an await passed, a thrown error, an unsupported extension)
\* leaves rawText and isRichText as they were; the step that stores the
\* content comes after the last await of the branch, sets rawText to the
\* value that await gave and sets isRichText at the same time, to true exactly
\* when the content was converted from a Word file.
C29_StoredTogetherOrNotAtAll ==
  [][Stepped # 0 =>
       LET u == uploads'[Stepped]
       IN  IF u.step = "done"
             THEN /\ u.last \in FinalSteps
                  /\ rawText' = u.content
                  /\ isRichText' = (u.last = "convertToHtml" /\ u.kind \in {"docx", "doc"})
                  /\ u.kind \in {"pdf", "image"} => ~isRichText'
                  /\ u.last = "text" => ~isRichText'
             ELSE /\ rawText' = rawText
                  /\ isRichText' = isRichText]_vars

\* a Word file was imported, then an unsupported file was chosen: the
\* converted content and the rich text mode are still there
C29_Witness ==
  /\ Len(uploads) = 2
  /\ uploads[1].kind = "docx"
  /\ uploads[1].step = "done"
  /\ uploads[2].step = "unsupported"
  /\ rawText = uploads[1].content
  /\ rawText # <<>>
  /\ isRichText

====
